---- MODULE Spec2Model ----
(***************************************************************************)
(* Model of Notebooks/Chapter_02.ipynb: the BookSCM sampler, the           *)
(* continuous observational / interventional cells, and the               *)
(* CounterFactualSCM engine (abduct, modify, predict).                    *)
(*                                                                         *)
(* Python numbers are modelled by value as normalised rationals n/d with  *)
(* a flag fl telling int from float.  int arithmetic is exact; every      *)
(* float operation rounds its exact result to Precision significant bits, *)
(* ties to even, as IEEE-754 does with 53 bits.  Exponent overflow and    *)
(* underflow are out of reach of the values used here.                    *)
(***************************************************************************)
EXTENDS Integers, Sequences, FiniteSets, TLC

\* Significand width of the modelled float (a double has 53).
Precision == 8
\* Python int inputs range over -MaxInt..MaxInt.
MaxInt == 1
\* Equations (closures returned by modify) a caller keeps at one time.
MaxEquations == 2
\* Sample sizes range over 1..MaxSampleSize (the notebook uses 100).
MaxSampleSize == 2
\* Variates drawn from the generator since it was last seeded.
MaxDraws == 6
\* The states an unseeded generator may start in (seeded by the OS): 1..MaxEntropy.
MaxEntropy == 2

----------------------------------------------------------------------------
(* Numbers *)

RECURSIVE Pow2(_)
Pow2(k) == IF k = 0 THEN 1 ELSE 2 * Pow2(k - 1)

Abs(k) == IF k < 0 THEN -k ELSE k

RECURSIVE GCD(_, _)
GCD(p, q) == IF q = 0 THEN p ELSE GCD(q, p % q)

\* n/d (d # 0) in lowest terms with a positive denominator, g being their gcd.
Reduced(n, d, g, fl) ==
    IF d < 0 THEN [n |-> (-n) \div g, d |-> (-d) \div g, fl |-> fl]
    ELSE [n |-> n \div g, d |-> d \div g, fl |-> fl]

Rat(n, d, fl) == Reduced(n, d, GCD(Abs(n), Abs(d)), fl)

\* An undefined name / no value.
None == [n |-> 0, d |-> 0, fl |-> FALSE]
\* The exception raised by a division by zero.
ZeroDivisionError == [n |-> 0, d |-> 0, fl |-> TRUE]
\* The value a silent (non-raising) division by zero would hand back.
Infinity == [n |-> 1, d |-> 0, fl |-> TRUE]

IsNumber(p) == p.d > 0
IsInt(p) == p.d = 1 /\ ~p.fl
IsIntegral(p) == p.d = 1

\* Scale num/den (both > 0) by powers of two until 2^(P-1) <= num/den < 2^P; pn and pd
\* accumulate the factors applied to the numerator and the denominator.
SignificandMin == Pow2(Precision - 1)
SignificandEnd == Pow2(Precision)

RECURSIVE ScaleToSignificand(_, _, _, _)
ScaleToSignificand(num, den, pn, pd) ==
    IF num >= SignificandEnd * den THEN ScaleToSignificand(num, 2 * den, pn, 2 * pd)
    ELSE IF num < SignificandMin * den THEN ScaleToSignificand(2 * num, den, 2 * pn, pd)
    ELSE [num |-> num, den |-> den, pn |-> pn, pd |-> pd]

\* The integer nearest to q + r/den (0 <= r < den), ties to even.
NearestEven(q, r, den) ==
    IF 2 * r > den \/ (2 * r = den /\ q % 2 = 1) THEN q + 1 ELSE q

\* The float of a scaled magnitude sc, negated when neg.
RoundScaled(sc, neg) ==
    Rat((IF neg THEN -1 ELSE 1)
            * NearestEven(sc.num \div sc.den, sc.num % sc.den, sc.den) * sc.pd,
        sc.pn, TRUE)

\* n/d rounded to the nearest float, ties to even.
Round(n, d) ==
    IF n = 0 THEN [n |-> 0, d |-> 1, fl |-> TRUE]
    ELSE RoundScaled(ScaleToSignificand(Abs(n), Abs(d), 1, 1), (n < 0) # (d < 0))

PyInt(k) == [n |-> k, d |-> 1, fl |-> FALSE]
\* The float a literal or an int converts to.
PyFloat(n, d) == Round(n, d)
ToFloat(p) == Round(p.n, p.d)

\* Float arithmetic: the exact result of the operation, rounded.
FloatAdd(fp, fq) == Round(fp.n * fq.d + fq.n * fp.d, fp.d * fq.d)
FloatSub(fp, fq) == Round(fp.n * fq.d - fq.n * fp.d, fp.d * fq.d)
FloatMul(fp, fq) == Round(fp.n * fq.n, fp.d * fq.d)
FloatDiv(fp, fq) == Round(fp.n * fq.d, fp.d * fq.n)

\* p + q, p - q, p * q: int with int is exact, anything else is float
\* arithmetic on the operands converted to float.
py_add(p, q) ==
    IF ~p.fl /\ ~q.fl THEN Rat(p.n * q.d + q.n * p.d, p.d * q.d, FALSE)
    ELSE FloatAdd(ToFloat(p), ToFloat(q))

py_sub(p, q) ==
    IF ~p.fl /\ ~q.fl THEN Rat(p.n * q.d - q.n * p.d, p.d * q.d, FALSE)
    ELSE FloatSub(ToFloat(p), ToFloat(q))

py_mul(p, q) ==
    IF ~p.fl /\ ~q.fl THEN Rat(p.n * q.n, p.d * q.d, FALSE)
    ELSE FloatMul(ToFloat(p), ToFloat(q))

py_truediv_silent(p, q) ==
    IF q.n = 0 THEN Infinity ELSE FloatDiv(ToFloat(p), ToFloat(q))

\* p / q on Python scalars: true division always yields a float (int / int is
\* the correctly rounded quotient), and a zero divisor raises ZeroDivisionError.
py_truediv(p, q) ==
    IF q.n = 0 THEN ZeroDivisionError ELSE FloatDiv(ToFloat(p), ToFloat(q))

\* p == q and p > q compare by value, int against float included.
py_eq(p, q) == p.n * q.d = q.n * p.d
py_gt(p, q) == p.n * q.d > q.n * p.d

----------------------------------------------------------------------------
(* CounterFactualSCM *)

VARIABLES
    coffee,     \* the CounterFactualSCM instance: its attribute dictionary
    t, y, u,    \* the caller's names t, y, u (None while unbound)
    heap,       \* closure cells, one per live modify() frame: [t |-> Number]
    equations,  \* the equations the caller holds: [cell, t_arg]; t_arg records
                \* the argument modify was called with
    last_call,  \* the call made last: [op, a1, a2]
    ret,        \* what it returned (None when it raised or has not run)
    outcome,    \* "none" | "returned" | "ZeroDivisionError"
    y_from      \* when y is a predicted outcome: the [u, t] it was predicted from

engine_vars == <<coffee, t, y, u, heap, equations, last_call, ret, outcome, y_from>>

VARIABLES
    rng,          \* numpy's global generator: [seed, pos], pos variates drawn since seeding
    scm,          \* the BookSCM instance: [random_seed], or NoInstance
    buy_book_a,   \* what scm.sample returned last (<<>> while unbound)
    buy_book_b,
    book_u_0,     \* the locals u_0 and u_1 of that sample call
    book_u_1,
    book_first,   \* the first BookSCM run of the session: [seed, n, a, b]
    SAMPLE_SIZE,  \* the notebook's names (0 / <<>> while unbound)
    u_0, u_1, a, b,
    obs_first,    \* the first run of the observational cell: [n, u_0, u_1, a, b]
    last_cell     \* the cell run last: [cell, arg]

sampler_vars == <<rng, scm, buy_book_a, buy_book_b, book_u_0, book_u_1, book_first,
                  SAMPLE_SIZE, u_0, u_1, a, b, obs_first, last_cell>>

vars == <<engine_vars, sampler_vars>>

Zero == PyInt(0)
One == PyInt(1)
Half == PyFloat(1, 2)

\* Treatments, outcomes and traits the callers pass.
TInputs == {Zero, One, Half}
IntInputs == {PyInt(k) : k \in -MaxInt..MaxInt}
\* Floats: the literal 0.1, and the spacing 2^-Precision (what 2^-53 is to a
\* double).
FloatInputs == {PyFloat(1, 10), PyFloat(1, Pow2(Precision))}
YInputs == IntInputs \cup FloatInputs
UInputs == IntInputs \cup FloatInputs

abduct_unsigned(t_, y_) ==
    py_truediv(py_sub(py_add(t_, y_), One), One)

abduct_no_offset(t_, y_) ==
    py_truediv(py_add(t_, y_), py_sub(py_mul(PyInt(2), t_), One))

\* def abduct(self, t, y): return (t + y - 1) / (2*t - 1)
abduct(t_, y_) ==
    py_truediv(py_sub(py_add(t_, y_), One), py_sub(py_mul(PyInt(2), t_), One))

\* The equation without its (t - 1) * (u - 1) term.
Equation_no_complement(t_, u_) == py_mul(t_, u_)

Equation_flipped(t_, u_) ==
    py_add(py_mul(t_, u_), py_mul(py_sub(t_, One), py_add(u_, One)))

\* The body of the lambda modify returns: t * u + (t - 1) * (u - 1), with t read
\* from its closure cell.
Equation(t_, u_) ==
    py_add(py_mul(t_, u_), py_mul(py_sub(t_, One), py_sub(u_, One)))

\* Every outcome and trait the calls below can meet, and abduct and the
\* equation tabulated over them once (the arithmetic is the definitions above).
YValues == YInputs \cup {Equation(t_, u_) : t_ \in TInputs, u_ \in UInputs}
UValues ==
    UInputs \cup {v \in {abduct(t_, y_) : t_ \in TInputs, y_ \in YValues} : IsNumber(v)}
abduct_table == [p \in TInputs \X YValues |-> abduct(p[1], p[2])] @@ <<>>
equation_table == [p \in TInputs \X UValues |-> Equation(p[1], p[2])] @@ <<>>

Apply(h, cell, u_) == equation_table[h[cell].t, u_]

modify_shared(h, t_) ==
    IF h = <<>> THEN [heap |-> <<[t |-> t_]>>, cell |-> 1]
    ELSE [heap |-> [h EXCEPT ![1] = [t |-> t_]], cell |-> 1]

\* def modify(self, t): return lambda u: ...   Each call has its own frame, so
\* the lambda closes over a fresh cell holding this call's t.
modify(h, t_) == [heap |-> Append(h, [t |-> t_]), cell |-> Len(h) + 1]

predict_stale(h, u_, t_) ==
    IF h = <<>> THEN equation_table[t_, u_] ELSE Apply(h, Len(h), u_)

\* def predict(self, u, t): return self.modify(t)(u)
predict(h, u_, t_) ==
    LET m == modify(h, t_) IN Apply(m.heap, m.cell, u_)

\* The cells that outlive a predict call: the temporary equation is dropped
\* on return, the cells of the equations the caller holds stay.
AfterPredict(h, t_) == SubSeq(modify(h, t_).heap, 1, Len(h))

NoCall == [op |-> "none", a1 |-> None, a2 |-> None]
\* y was passed in, not predicted.
NoOrigin == [u |-> None, t |-> None]

EngineInit ==
    /\ coffee = {}
    /\ t = None /\ y = None /\ u = None
    /\ heap = <<>>
    /\ equations = <<>>
    /\ last_call = NoCall
    /\ ret = None
    /\ outcome = "none"
    /\ y_from = NoOrigin

\* t = ...; y = ...; u = coffee.abduct(t=t, y=y)
AbductCall(t_, y_, from) ==
    LET r == abduct_table[t_, y_] IN
    /\ t' = t_
    /\ y' = y_
    /\ y_from' = from
    /\ last_call' = [op |-> "abduct", a1 |-> t_, a2 |-> y_]
    /\ IF r = ZeroDivisionError
       THEN /\ outcome' = "ZeroDivisionError"
            /\ ret' = None
            /\ u' = u
       ELSE /\ outcome' = "returned"
            /\ ret' = r
            /\ u' = r
    /\ UNCHANGED <<coffee, heap, equations, sampler_vars>>

Abduct ==
    \E t_ \in TInputs, y_ \in YInputs : AbductCall(t_, y_, NoOrigin)

\* Abduction from an outcome that predict has just computed for a given trait.
AbductPredicted ==
    /\ last_call.op = "predict"
    /\ last_call.a1 \in UInputs
    /\ outcome = "returned"
    /\ \E t_ \in TInputs :
          AbductCall(t_, ret, [u |-> last_call.a1, t |-> last_call.a2])

\* f = coffee.modify(t)
Modify ==
    /\ Len(equations) < MaxEquations
    /\ \E t_ \in TInputs :
          LET m == modify(heap, t_) IN
          /\ heap' = m.heap
          /\ equations' = Append(equations, [cell |-> m.cell, t_arg |-> t_])
          /\ last_call' = [op |-> "modify", a1 |-> t_, a2 |-> None]
    /\ ret' = None
    /\ outcome' = "returned"
    /\ UNCHANGED <<coffee, t, y, u, y_from, sampler_vars>>

\* f(u) on an equation the caller holds
CallEquation ==
    /\ \E i \in 1..Len(equations), u_ \in UInputs \cup {u} :
          /\ IsNumber(u_)
          /\ ret' = Apply(heap, equations[i].cell, u_)
          /\ last_call' = [op |-> "call", a1 |-> PyInt(i), a2 |-> u_]
    /\ outcome' = "returned"
    /\ UNCHANGED <<coffee, t, y, u, heap, equations, y_from, sampler_vars>>

\* coffee.predict(u=u, t=...)
Predict ==
    /\ \E u_ \in UInputs \cup {u}, t_ \in TInputs :
          /\ IsNumber(u_)
          /\ ret' = predict(heap, u_, t_)
          /\ heap' = AfterPredict(heap, t_)
          /\ last_call' = [op |-> "predict", a1 |-> u_, a2 |-> t_]
    /\ outcome' = "returned"
    /\ UNCHANGED <<coffee, t, y, u, equations, y_from, sampler_vars>>

----------------------------------------------------------------------------
(* The process-wide generator, BookSCM and the continuous scenario *)


\* random_seed=42 and np.random.seed(42)
RandomSeed == 42
\* random_seed=None
NoSeed == -1
SeedInputs == {NoSeed, RandomSeed}
EntropySeeds == 1..MaxEntropy
SampleSizes == 1..MaxSampleSize

\* The values a draw can take: floats on a coarse grid.
UniformValues == <<PyFloat(1, 8), PyFloat(1, 2), PyFloat(5, 8), PyFloat(7, 8)>>
NormalValues ==
    <<PyFloat(-2, 1), PyFloat(-1, 2), PyFloat(0, 1), PyFloat(1, 4), PyFloat(1, 2),
      PyFloat(3, 2)>>

\* The generator is a deterministic function of its seed and of how many
\* variates it has produced: Bits is the raw output at a position of a stream.
Bits(seed, pos) == (seed * 7 + pos * 13 + pos * pos * 5 + seed * pos * 3) % 24
UniformAt(seed, pos) == UniformValues[(Bits(seed, pos) % Len(UniformValues)) + 1]
NormalAt(seed, pos) ==
    NormalValues[((Bits(seed, pos) \div Len(UniformValues)) % Len(NormalValues)) + 1]

\* np.random.seed(seed)
np_random_seed(seed) == [seed |-> seed, pos |-> 0]

\* np.random.randn(n) and stats.norm().rvs(n): n standard normal variates from
\* the global generator g, and the generator afterwards.
randn(g, n) ==
    [vals |-> [i \in 1..n |-> NormalAt(g.seed, g.pos + i - 1)],
     rng  |-> [g EXCEPT !.pos = @ + n]]

\* stats.uniform().rvs(n): n uniform variates from the global generator g.
rvs_uniform(g, n) ==
    [vals |-> [i \in 1..n |-> UniformAt(g.seed, g.pos + i - 1)],
     rng  |-> [g EXCEPT !.pos = @ + n]]

NoInstance == [random_seed |-> NoSeed, live |-> FALSE]

\* BookSCM.__init__: keeps random_seed and the two frozen distributions.
BookSCM(random_seed) == [random_seed |-> random_seed, live |-> TRUE]

\* A boolean as the float it adds as.
AsFloat(flag) == IF flag THEN PyFloat(1, 1) ELSE PyFloat(0, 1)

\* a = u_0 > 0.61, for one element
BookA(v0) == py_gt(v0, PyFloat(61, 100))

BookB_unscaled(flag, v1) == py_gt(py_add(AsFloat(flag), v1), PyFloat(1, 5))

\* b = (a + 0.5 * u_1) > 0.2, for one element
BookB(flag, v1) ==
    py_gt(py_add(AsFloat(flag), py_mul(PyFloat(1, 2), v1)), PyFloat(1, 5))

\* b = 5 * a + u_1, for one element
StructuralB(va, v1) == py_add(py_mul(PyInt(5), va), v1)

\* The values A is fixed at by the intervention (the notebook uses 1.5).
InterventionValues == {PyFloat(3, 2), PyFloat(2, 1)}

\* The three elementwise equations tabulated once over the values drawn.
UniformRange == {UniformValues[k] : k \in 1..Len(UniformValues)}
NormalRange == {NormalValues[k] : k \in 1..Len(NormalValues)}
book_a_table == [v \in UniformRange |-> BookA(v)] @@ <<>>
book_b_table == [v \in BOOLEAN \X NormalRange |-> BookB(v[1], v[2])] @@ <<>>
structural_b_table ==
    [v \in (NormalRange \cup InterventionValues) \X NormalRange |->
        StructuralB(v[1], v[2])] @@ <<>>

\* BookSCM.sample: draws from the global generator as it stands (self.random_seed
\* is not read), then applies the two structural equations.
sample(self, g, sample_size) ==
    LET d0 == rvs_uniform(g, sample_size)
        d1 == randn(d0.rng, sample_size)
        sa == [i \in 1..sample_size |-> book_a_table[d0.vals[i]]]
        sb == [i \in 1..sample_size |-> book_b_table[sa[i], d1.vals[i]]]
    IN  [a |-> sa, b |-> sb, u_0 |-> d0.vals, u_1 |-> d1.vals, rng |-> d1.rng]

\* b = 5 * a + u_1 on arrays
StructuralEquationB(va, vu1) ==
    [i \in 1..Len(va) |-> structural_b_table[va[i], vu1[i]]]

NoBookRun == [n |-> 0, seed |-> NoSeed, a |-> <<>>, b |-> <<>>]
NoObsRun == [n |-> 0, u_0 |-> <<>>, u_1 |-> <<>>, a |-> <<>>, b |-> <<>>]
NoCell == [cell |-> "none", arg |-> None]

SamplerFresh(entropy) ==
    /\ rng = [seed |-> entropy, pos |-> 0]
    /\ scm = NoInstance
    /\ buy_book_a = <<>> /\ buy_book_b = <<>>
    /\ book_u_0 = <<>> /\ book_u_1 = <<>>
    /\ book_first = NoBookRun
    /\ SAMPLE_SIZE = 0
    /\ u_0 = <<>> /\ u_1 = <<>> /\ a = <<>> /\ b = <<>>
    /\ obs_first = NoObsRun
    /\ last_cell = NoCell

\* Every sampler name unbound, the generator seeded from OS entropy.
SamplerInit == \E e \in EntropySeeds : SamplerFresh(e)

\* scm = BookSCM(random_seed=...); buy_book_a, buy_book_b = scm.sample(...)
RunBookCell ==
    \E seed \in SeedInputs, n \in SampleSizes :
        LET self == BookSCM(seed)
            out  == sample(self, rng, n)
        IN  /\ rng.pos + 2 * n <= MaxDraws
            /\ scm' = self
            /\ buy_book_a' = out.a
            /\ buy_book_b' = out.b
            /\ book_u_0' = out.u_0
            /\ book_u_1' = out.u_1
            /\ rng' = out.rng
            /\ book_first' = IF book_first = NoBookRun
                             THEN [n |-> n, seed |-> seed, a |-> out.a, b |-> out.b]
                             ELSE book_first
            /\ last_cell' = [cell |-> "book", arg |-> PyInt(n)]
            /\ UNCHANGED <<SAMPLE_SIZE, u_0, u_1, a, b, obs_first, engine_vars>>

\* SAMPLE_SIZE = ...; np.random.seed(42); u_0 = randn; u_1 = randn; a = u_0;
\* b = 5 * a + u_1
RunObservationalCell ==
    \E n \in SampleSizes :
        LET g  == np_random_seed(RandomSeed)
            d0 == randn(g, n)
            d1 == randn(d0.rng, n)
            vb == StructuralEquationB(d0.vals, d1.vals)
        IN  /\ SAMPLE_SIZE' = n
            /\ u_0' = d0.vals
            /\ u_1' = d1.vals
            /\ a' = d0.vals
            /\ b' = vb
            /\ rng' = d1.rng
            /\ obs_first' = IF obs_first = NoObsRun
                            THEN [n |-> n, u_0 |-> d0.vals, u_1 |-> d1.vals,
                                  a |-> d0.vals, b |-> vb]
                            ELSE obs_first
            /\ last_cell' = [cell |-> "observe", arg |-> PyInt(n)]
            /\ UNCHANGED <<scm, buy_book_a, buy_book_b, book_u_0, book_u_1, book_first,
                           engine_vars>>

RunInterveneOnA_resampled ==
    /\ SAMPLE_SIZE > 0
    /\ rng.pos + SAMPLE_SIZE <= MaxDraws
    /\ \E c \in InterventionValues :
          LET va == [i \in 1..SAMPLE_SIZE |-> c]
              d1 == randn(rng, SAMPLE_SIZE)
          IN  /\ a' = va
              /\ u_1' = d1.vals
              /\ rng' = d1.rng
              /\ b' = StructuralEquationB(va, d1.vals)
              /\ last_cell' = [cell |-> "do_A", arg |-> c]
    /\ UNCHANGED <<scm, buy_book_a, buy_book_b, book_u_0, book_u_1, book_first,
                   SAMPLE_SIZE, u_0, obs_first, engine_vars>>

\* a = np.array([1.5] * SAMPLE_SIZE); b = 5 * a + u_1
RunInterveneOnA ==
    /\ SAMPLE_SIZE > 0
    /\ \E c \in InterventionValues :
          LET va == [i \in 1..SAMPLE_SIZE |-> c] IN
          /\ a' = va
          /\ b' = StructuralEquationB(va, u_1)
          /\ last_cell' = [cell |-> "do_A", arg |-> c]
    /\ UNCHANGED <<rng, scm, buy_book_a, buy_book_b, book_u_0, book_u_1, book_first,
                   SAMPLE_SIZE, u_0, u_1, obs_first, engine_vars>>

RunInterveneOnB_structural ==
    /\ SAMPLE_SIZE > 0
    /\ a' = u_0
    /\ b' = StructuralEquationB(u_0, u_1)
    /\ last_cell' = [cell |-> "do_B", arg |-> None]
    /\ UNCHANGED <<rng, scm, buy_book_a, buy_book_b, book_u_0, book_u_1, book_first,
                   SAMPLE_SIZE, u_0, u_1, obs_first, engine_vars>>

\* a = u_0; b = np.random.randn(SAMPLE_SIZE)
RunInterveneOnB ==
    /\ SAMPLE_SIZE > 0
    /\ rng.pos + SAMPLE_SIZE <= MaxDraws
    /\ LET d == randn(rng, SAMPLE_SIZE) IN
          /\ a' = u_0
          /\ b' = d.vals
          /\ rng' = d.rng
    /\ last_cell' = [cell |-> "do_B", arg |-> None]
    /\ UNCHANGED <<scm, buy_book_a, buy_book_b, book_u_0, book_u_1, book_first,
                   SAMPLE_SIZE, u_0, u_1, obs_first, engine_vars>>

----------------------------------------------------------------------------
(* Specifications *)

\* A fresh kernel: nothing bound, the generator seeded from OS entropy.
Init == EngineInit /\ SamplerInit

\* The same with the generator's start fixed: the engine never draws.
EngineStart == EngineInit /\ SamplerFresh(1)

\* Any sequence of calls on one CounterFactualSCM instance.
EngineNext == Abduct \/ Modify \/ CallEquation \/ Predict
EngineSpec == EngineStart /\ [][EngineNext]_vars

\* Abduction and prediction composed, each on what the other returned.
CounterfactualNext == Abduct \/ Predict \/ AbductPredicted
CounterfactualSpec == EngineStart /\ [][CounterfactualNext]_vars

\* The sampling cells of the notebook, run and re-run in any order in which
\* the names they read are bound.
SamplerNext ==
    RunBookCell \/ RunObservationalCell \/ RunInterveneOnA \/ RunInterveneOnB
SamplerSpec == Init /\ [][SamplerNext]_vars

----------------------------------------------------------------------------
(* Properties of the counterfactual engine *)

\* The caller's u is what abduct returned for the caller's t and y, t is 0 or 1,
\* and predict has just been called on that u under the same t.
RoundTripDone ==
    /\ last_call.op = "predict"
    /\ t \in {Zero, One}
    /\ last_call.a1 = u
    /\ last_call.a2 = t

\* C1 as stated: for t in {0,1} and every number y, int or float,
\* predict(abduct(t, y), t) == y.
C1_RoundTripAnyNumber == RoundTripDone => py_eq(ret, y)

\* C1 amended: for t in {0,1} and every integer-valued y (in particular y in
\* {0,1}), predict(abduct(t, y), t) == y.
C1_RoundTripIntegers == (RoundTripDone /\ IsIntegral(y)) => py_eq(ret, y)

C1_Witness ==
    /\ RoundTripDone
    /\ t = Zero
    /\ y = PyInt(-1)
    /\ py_eq(u, PyInt(2))
    /\ py_eq(ret, PyInt(-1))

\* C2: abduct with t = 0.5 ends in ZeroDivisionError and returns no value,
\* whatever y is.
C2_HalfTreatmentRaises ==
    (last_call.op = "abduct" /\ py_eq(last_call.a1, Half))
        => (outcome = "ZeroDivisionError" /\ ret = None)

C2_Witness ==
    /\ last_call.op = "abduct"
    /\ last_call.a1 = Half
    /\ last_call.a2 = One
    /\ outcome = "ZeroDivisionError"

\* C7: the worked example: abduct(t=1, y=1) returns 1.0 and predict(u=1, t=0)
\* returns 0.
C7_WorkedExample ==
    /\ (last_call.op = "abduct" /\ last_call.a1 = One /\ last_call.a2 = One)
          => (outcome = "returned" /\ ret = PyFloat(1, 1))
    /\ (last_call.op = "predict" /\ py_eq(last_call.a1, One) /\ last_call.a2 = Zero)
          => (outcome = "returned" /\ py_eq(ret, Zero))

C7_Witness ==
    /\ t = One /\ y = One /\ u = PyFloat(1, 1)
    /\ last_call = [op |-> "predict", a1 |-> u, a2 |-> Zero]
    /\ ret = PyFloat(0, 1)

\* C8: every equation the caller holds still has the t it was created with,
\* whatever modify calls came later, and calling it at u returns
\* t*u + (t-1)*(u-1) for that t.
C8_EquationsIndependent ==
    /\ \A i \in 1..Len(equations) : heap[equations[i].cell].t = equations[i].t_arg
    /\ last_call.op = "call"
          => ret = py_add(py_mul(equations[last_call.a1.n].t_arg, last_call.a2),
                          py_mul(py_sub(equations[last_call.a1.n].t_arg, One),
                                 py_sub(last_call.a2, One)))

C8_Witness ==
    /\ Len(equations) = 2
    /\ equations[1].t_arg = One
    /\ equations[2].t_arg = Zero
    /\ last_call = [op |-> "call", a1 |-> PyInt(1), a2 |-> One]
    /\ py_eq(ret, One)

\* C9: no call changes the instance; modify, predict and calling an equation
\* leave the caller's t, y and u alone; abduct and predict leave the equations
\* the caller holds alone; and predict(u, t) returns t*u + (t-1)*(u-1) for its
\* own arguments whatever calls came before.
C9_Stateless ==
    [][/\ coffee' = coffee
       /\ last_call'.op \in {"modify", "call", "predict"}
             => (t' = t /\ y' = y /\ u' = u)
       /\ last_call'.op \in {"abduct", "predict"}
             => (heap' = heap /\ equations' = equations)
       /\ last_call'.op = "predict"
             => ret' = py_add(py_mul(last_call'.a2, last_call'.a1),
                              py_mul(py_sub(last_call'.a2, One),
                                     py_sub(last_call'.a1, One)))]_vars

\* The abducted u predicted under a treatment other than the observed one,
\* with an equation of yet another treatment made in between.
C9_Witness ==
    /\ t = One /\ y = One
    /\ Len(equations) = 1
    /\ equations[1].t_arg = Half
    /\ last_call = [op |-> "predict", a1 |-> u, a2 |-> Zero]
    /\ py_eq(ret, Zero)

\* t is 0 or 1, y is what predict returned for a trait under that t, and
\* abduct has just been called on that t and y.
IdentificationDone ==
    /\ last_call.op = "abduct"
    /\ y_from # NoOrigin
    /\ y_from.t = t
    /\ t \in {Zero, One}

\* C10 as stated: for t in {0,1} and every number u, int or float,
\* abduct(t, predict(u, t)) == u.
C10_IdentifiedAnyNumber ==
    IdentificationDone => (outcome = "returned" /\ py_eq(ret, y_from.u))

\* C10 amended: for t in {0,1} and every integer-valued u,
\* abduct(t, predict(u, t)) == u, and that u is the only integer-valued trait
\* whose predicted outcome under t is y.
C10_IdentifiedIntegers ==
    (IdentificationDone /\ IsIntegral(y_from.u))
        => /\ outcome = "returned"
           /\ py_eq(ret, y_from.u)
           /\ \A v \in {w \in UValues : IsIntegral(w)} :
                 py_eq(Equation(t, v), y) => py_eq(v, ret)

C10_Witness ==
    /\ IdentificationDone
    /\ t = Zero
    /\ y_from.u = PyInt(-1)
    /\ py_eq(y, PyInt(2))
    /\ py_eq(ret, PyInt(-1))

----------------------------------------------------------------------------
(* Properties of the sampler *)

\* C3 as stated: a run of a scenario gives what the first run of that scenario
\* with the same seed and size gave: BookSCM(random_seed=s).sample(N) the same
\* (A, B), the continuous scenario the same U0, U1, A, B.
C3_SameSeedSameOutput ==
    /\ (last_cell.cell = "book" /\ scm.random_seed # NoSeed
            /\ book_first.seed = scm.random_seed /\ book_first.n = Len(buy_book_a))
          => (buy_book_a = book_first.a /\ buy_book_b = book_first.b)
    /\ (last_cell.cell = "observe" /\ obs_first.n = SAMPLE_SIZE)
          => (u_0 = obs_first.u_0 /\ u_1 = obs_first.u_1
                /\ a = obs_first.a /\ b = obs_first.b)

\* C4: the intervention on A draws nothing, leaves u_0 and u_1 (the draws of the
\* observational cell) as they were, and sets every b[i] to 5*c + u_1[i].
C4_InterveneOnAReusesU1 ==
    [][last_cell'.cell = "do_A"
         => /\ rng' = rng
            /\ u_0' = u_0
            /\ u_1' = u_1
            /\ Len(a') = SAMPLE_SIZE
            /\ Len(b') = SAMPLE_SIZE
            /\ \A i \in 1..SAMPLE_SIZE :
                  /\ u_1[i] = NormalAt(RandomSeed, SAMPLE_SIZE + i - 1)
                  /\ a'[i] = last_cell'.arg
                  /\ b'[i] = py_add(py_mul(PyInt(5), last_cell'.arg), u_1[i])]_vars

C4_Witness ==
    /\ last_cell = [cell |-> "do_A", arg |-> PyFloat(3, 2)]
    /\ SAMPLE_SIZE = 2
    /\ b[1] # b[2]
    /\ a # u_0

\* C5: the intervention on B sets a to u_0 and b to SAMPLE_SIZE variates drawn
\* from the generator at positions past those of u_0 and u_1, which stay as
\* they were.
C5_InterveneOnBDrawsFresh ==
    [][last_cell'.cell = "do_B"
         => /\ a' = u_0
            /\ u_0' = u_0
            /\ u_1' = u_1
            /\ rng.seed = RandomSeed
            /\ rng.pos >= 2 * SAMPLE_SIZE
            /\ rng' = [rng EXCEPT !.pos = rng.pos + SAMPLE_SIZE]
            /\ Len(b') = SAMPLE_SIZE
            /\ \A i \in 1..SAMPLE_SIZE :
                  /\ u_0[i] = NormalAt(RandomSeed, i - 1)
                  /\ u_1[i] = NormalAt(RandomSeed, SAMPLE_SIZE + i - 1)
                  /\ b'[i] = NormalAt(RandomSeed, rng.pos + i - 1)]_vars

C5_Witness ==
    /\ last_cell.cell = "do_B"
    /\ SAMPLE_SIZE = 2
    /\ a = u_0
    /\ \A i \in 1..2 : b[i] # py_add(py_mul(PyInt(5), a[i]), u_1[i])

\* C6: what sample(N) returned are two boolean sequences of length N, with
\* a[i] = (u_0[i] > 0.61) and b[i] = ((1 if a[i] else 0) + 0.5*u_1[i] > 0.2) for
\* the u_0 and u_1 that call drew.
C6_SampleEquations ==
    scm.live
        => /\ Len(buy_book_a) = Len(book_u_0)
           /\ Len(buy_book_b) = Len(book_u_0)
           /\ Len(book_u_1) = Len(book_u_0)
           /\ Len(book_u_0) \in SampleSizes
           /\ last_cell.cell = "book" => Len(buy_book_a) = last_cell.arg.n
           /\ \A i \in 1..Len(book_u_0) :
                 /\ buy_book_a[i] = py_gt(book_u_0[i], PyFloat(61, 100))
                 /\ buy_book_b[i] =
                       py_gt(py_add(IF buy_book_a[i] THEN PyFloat(1, 1) ELSE PyFloat(0, 1),
                                    py_mul(PyFloat(1, 2), book_u_1[i])),
                             PyFloat(1, 5))

C6_Witness ==
    /\ last_cell = [cell |-> "book", arg |-> PyInt(2)]
    /\ buy_book_a[1] # buy_book_a[2]
    /\ buy_book_b[1] # buy_book_b[2]

\* 0 or 1, as an int or as a float.
IsBinary(p) == p \in {PyInt(0), PyInt(1), PyFloat(0, 1), PyFloat(1, 1)}

\* C11: for t and y in {0,1}, abduct(t, y) returns 0 or 1, and predicting that
\* u under the opposite treatment 1 - t returns the opposite outcome 1 - y.
C11_BinaryCounterfactualFlips ==
    /\ (last_call.op = "abduct" /\ IsBinary(last_call.a1) /\ IsBinary(last_call.a2))
          => (outcome = "returned" /\ IsBinary(ret) /\ u = ret)
    /\ (/\ last_call.op = "predict"
        /\ IsBinary(t) /\ IsBinary(y)
        /\ last_call.a1 = u
        /\ py_eq(last_call.a2, py_sub(One, t)))
          => (outcome = "returned" /\ py_eq(ret, py_sub(One, y)))

\* Observed t = 1, y = 0: the trait is 0, and under t = 0 the outcome is 1.
C11_Witness ==
    /\ t = One /\ y = Zero
    /\ py_eq(u, Zero)
    /\ last_call = [op |-> "predict", a1 |-> u, a2 |-> Zero]
    /\ py_eq(ret, One)

====
